---- MODULE Spec2Model ----
(***************************************************************************)
(* Streaming ingestion and state reconstruction of the triage frontend:    *)
(*   - useTriageStore        (frontend/src/state/triageStore.js)           *)
(*   - connectSSE            (api/triageApi.js, src/unnamed/part_012)      *)
(*   - PatientForm.handleSubmit and its SSE handlers (src/unnamed/part_004)*)
(*   - runRealStream         (services/api.js, frontend/src/App.jsx:42-74) *)
(*                                                                         *)
(* JavaScript values are records [t, phase, message, text]: t is the JS    *)
(* type, phase and message are the two properties the handlers branch on,  *)
(* text identifies the content (the JSON text the value was parsed from,   *)
(* or the characters of a string).  A missing property reads as UNDEF.     *)
(* The ts: Date.now() stamp of a log entry is left out of the model.       *)
(***************************************************************************)
EXTENDS Integers, Sequences, FiniteSets, TLC

VARIABLES store, conns, pending, runs, wire, calls, last, terminated, clicks,
          rsText, rsPos, decoder, buffer, rsEvents, rsChunks, rsDone,
          view, started, ctx, stream, lvLast

vars == <<store, conns, pending, runs, wire, calls, last, terminated, clicks,
          rsText, rsPos, decoder, buffer, rsEvents, rsChunks, rsDone,
          view, started, ctx, stream, lvLast>>

storeVars == <<store, conns, pending, runs, wire, calls, last, terminated, clicks>>
streamVars == <<rsText, rsPos, decoder, buffer, rsEvents, rsChunks, rsDone>>
liveVars == <<view, started, ctx, stream, lvLast>>

(* ------------------------------ bounds --------------------------------- *)
MaxRuns == 2
(* frames and row clicks in one behaviour *)
MaxFrames == 3
MaxStreamFrames == 2
MaxClicks == 1

(* --------------------------- JavaScript values ------------------------- *)
UNDEF == "<undefined>"

Null == [t |-> "null", phase |-> UNDEF, message |-> UNDEF, text |-> "null"]
Undefined == [t |-> "undefined", phase |-> UNDEF, message |-> UNDEF, text |-> UNDEF]
Str(s) == [t |-> "string", phase |-> UNDEF, message |-> UNDEF, text |-> s]
Obj(p, m, s) == [t |-> "object", phase |-> p, message |-> m, text |-> s]

Nullish(v) == v.t \in {"null", "undefined"}

(* the payload texts that travel on the wire in this model *)
T_init == "{\"phase\":\"init\"}"
T_class == "{\"phase\":\"classification\"}"
T_empty == "{}"
T_null == "null"
T_risk == "{\"risk_level\":\"High\"}"
T_op == "{\"specialty\":\"Cardiology\"}"
T_bad == "{\"specialty\":"
T_dept == "{\"departments\":[]}"
T_verdict == "{\"final_risk_level\":\"Critical\"}"
T_boom == "{\"message\":\"boom\"}"
T_op2 == "{\"specialty\":\"Neurology\"}"
T_op3 == "{\"specialty\":\"Pulmonology\"}"
T_verdict98 == "{\"final_risk_level\":\"Critical\",\"priority_score\":98}"
T_complete == "{\"phase\":\"complete\"}"

LOST == "SSE connection lost"

(* JSON.parse: ok = FALSE stands for the SyntaxError *)
JSONParse(d) ==
  IF d.t # "string" THEN [ok |-> FALSE, v |-> Undefined]
  ELSE CASE d.text = T_init -> [ok |-> TRUE, v |-> Obj("init", UNDEF, T_init)]
         [] d.text = T_class -> [ok |-> TRUE, v |-> Obj("classification", UNDEF, T_class)]
         [] d.text = T_complete -> [ok |-> TRUE, v |-> Obj("complete", UNDEF, T_complete)]
         [] d.text = T_boom -> [ok |-> TRUE, v |-> Obj(UNDEF, "boom", T_boom)]
         [] d.text = T_null -> [ok |-> TRUE, v |-> Null]
         [] d.text \in {T_empty, T_risk, T_op, T_dept, T_verdict, T_op2, T_op3, T_verdict98}
              -> [ok |-> TRUE, v |-> Obj(UNDEF, UNDEF, d.text)]
         [] OTHER -> [ok |-> FALSE, v |-> Undefined]

(* ------------------------------ the store ------------------------------ *)
InitialStore ==
  [classification |-> Null, specialists |-> <<>>, otherSpecialty |-> Null,
   verdict |-> Null, streamEvents |-> <<>>, phase |-> "idle",
   isTriaging |-> FALSE, sessionId |-> 0, patientData |-> Null]

setClassification(st, c) == [st EXCEPT !.classification = c]
(* an addSpecialist that replaces the list *)
addSpecialist_replace(st, s) == [st EXCEPT !.specialists = <<s>>]

addSpecialist(st, s) == [st EXCEPT !.specialists = Append(@, s)]
setOtherSpecialty(st, o) == [st EXCEPT !.otherSpecialty = o]
setVerdict(st, v) == [st EXCEPT !.verdict = v]
addStreamEvent(st, e) == [st EXCEPT !.streamEvents = Append(@, e)]
setPhase(st, p) == [st EXCEPT !.phase = p]
setIsTriaging(st, b) == [st EXCEPT !.isTriaging = b]
setSessionId(st, id) == [st EXCEPT !.sessionId = id]
setPatientData(st, d) == [st EXCEPT !.patientData = d]
(* a reset that forgets to clear the log *)
reset_keepLog(st) == [InitialStore EXCEPT !.streamEvents = st.streamEvents]

reset(st) == InitialStore

(* a log entry; message of a template literal is the text of the object   *)
(* whose properties it interpolates, UNDEF when they all read undefined   *)
Entry(ty, m, p) == [type |-> ty, message |-> m, phase |-> p]
Interp(data) == IF data.t = "object" THEN data.text ELSE UNDEF
Falsy(s) == s \in {UNDEF, ""}

(* ------------------- PatientForm.handleSubmit handlers ------------------ *)
(* each handler yields the store it leaves behind and whether it threw;   *)
(* a property read on null or undefined throws a TypeError at that point  *)
Ret(st, th) == [st |-> st, threw |-> th]

statusHandler(st, data) ==
  IF Nullish(data) THEN Ret(st, TRUE)
  ELSE Ret(addStreamEvent(
             setPhase(st, IF Falsy(data.phase) THEN "processing" ELSE data.phase),
             Entry("status", data.message, data.phase)), FALSE)

classificationHandler(st, data) ==
  IF Nullish(data) THEN Ret(setClassification(st, data), TRUE)
  ELSE Ret(addStreamEvent(setClassification(st, data),
                          Entry("classification", Interp(data), UNDEF)), FALSE)

specialistHandler(st, data) ==
  IF Nullish(data) THEN Ret(addSpecialist(st, data), TRUE)
  ELSE Ret(addStreamEvent(addSpecialist(st, data),
                          Entry("specialist", Interp(data), UNDEF)), FALSE)

(* a handler that files the other-specialty scores among the opinions *)
otherHandler_intoSpecialists(st, data) ==
  IF Nullish(data) THEN Ret(addSpecialist(st, data), TRUE)
  ELSE Ret(addStreamEvent(addSpecialist(st, data),
                          Entry("other", Interp(data), UNDEF)), FALSE)

otherHandler(st, data) ==
  IF Nullish(data) THEN Ret(setOtherSpecialty(st, data), TRUE)
  ELSE Ret(addStreamEvent(setOtherSpecialty(st, data),
                          Entry("other", Interp(data), UNDEF)), FALSE)

verdictHandler(st, data) ==
  IF Nullish(data) THEN Ret(setVerdict(st, data), TRUE)
  ELSE Ret(addStreamEvent(setVerdict(st, data),
                          Entry("verdict", Interp(data), UNDEF)), FALSE)

completeHandler(st, data) ==
  Ret(addStreamEvent(setIsTriaging(setPhase(st, "complete"), FALSE),
                     Entry("complete", "Triage complete", UNDEF)), FALSE)

errorHandler(st, data) ==
  IF Nullish(data) THEN Ret(setIsTriaging(setPhase(st, "error"), FALSE), TRUE)
  ELSE Ret(addStreamEvent(setIsTriaging(setPhase(st, "error"), FALSE),
             Entry("error",
                   IF Falsy(data.message) THEN "An error occurred" ELSE data.message,
                   UNDEF)), FALSE)

(* the handlers object passed to connectSSE *)
Handle(evt, st, data) ==
  CASE evt = "status" -> statusHandler(st, data)
    [] evt = "classification_result" -> classificationHandler(st, data)
    [] evt = "specialist_opinion" -> specialistHandler(st, data)
    [] evt = "other_specialty_scores" -> otherHandler(st, data)
    [] evt = "cmo_verdict" -> verdictHandler(st, data)
    [] evt = "complete" -> completeHandler(st, data)
    [] evt = "error" -> errorHandler(st, data)

(* ------------------------------ connectSSE ------------------------------ *)
events == {"status", "classification_result", "specialist_opinion",
           "other_specialty_scores", "cmo_verdict", "complete", "error"}

(* result of running listeners: the store and the handler invocations made *)
Run(st, cs) == [st |-> st, calls |-> cs]
Call(evt, data) == [evt |-> evt, arg |-> data]

(* the listener added for evt, run on an event whose data property is d:  *)
(* the catch also catches what the handler throws, and calls it again     *)
Listener(evt, st, d) ==
  LET p == JSONParse(d) IN
  IF p.ok
  THEN LET r == Handle(evt, st, p.v) IN
       IF r.threw
       THEN Run(Handle(evt, r.st, d).st, <<Call(evt, p.v), Call(evt, d)>>)
       ELSE Run(r.st, <<Call(evt, p.v)>>)
  ELSE Run(Handle(evt, st, d).st, <<Call(evt, d)>>)

(* an onerror that only closes the source *)
OnError_closeOnly(st) == Run(st, <<>>)

(* es.onerror: runs for every event of type error dispatched on es *)
OnError(st) ==
  LET lost == Obj(UNDEF, LOST, LOST) IN
  Run(Handle("error", st, lost).st, <<Call("error", lost)>>)

(* a dispatch that hands events of other types to the status listener *)
Dispatch_fallback(evt, st, d) ==
  IF evt \notin events THEN Listener("status", st, d)
  ELSE LET a == Listener(evt, st, d) IN
       IF evt = "error"
       THEN LET b == OnError(a.st) IN Run(b.st, a.calls \o b.calls)
       ELSE a

(* dispatch of one event of type evt on es: the listeners in the order    *)
(* they were added (addEventListener in line 32, then onerror in line 42) *)
Dispatch(evt, st, d) ==
  IF evt \notin events THEN Run(st, <<>>)
  ELSE LET a == Listener(evt, st, d) IN
       IF evt = "error"
       THEN LET b == OnError(a.st) IN Run(b.st, a.calls \o b.calls)
       ELSE a

(* ----------------------- frames sent by the server ---------------------- *)
Frame(evt, text) == [evt |-> evt, data |-> text]

Frames ==
  { Frame("status", T_init), Frame("status", T_class), Frame("status", T_empty),
    Frame("status", T_null), Frame("status", T_complete),
    Frame("classification_result", T_risk), Frame("classification_result", T_null),
    Frame("specialist_opinion", T_op), Frame("specialist_opinion", T_bad),
    Frame("specialist_opinion", T_null),
    Frame("other_specialty_scores", T_dept),
    Frame("cmo_verdict", T_verdict),
    Frame("complete", T_empty),
    Frame("error", T_boom),
    Frame("heartbeat", T_empty) }

Terminal(evt) == evt \in {"complete", "error"}

(* the form state of PatientForm, as stored by setPatientData(form) *)
Form == Obj(UNDEF, UNDEF, "form")

(* what startTriage can reject with: err.message *)
StartErrors == {"Network Error", ""}

Conn(sid) == [sid |-> sid, open |-> TRUE, term |-> FALSE, frames |-> 0]

Last(op, c, evt) == [op |-> op, conn |-> c, evt |-> evt, pre |-> store,
                     preTerm |-> terminated,
                     connTerm |-> IF c \in DOMAIN conns THEN conns[c].term ELSE FALSE]

Mark(c, k, cs) == [i \in DOMAIN cs |-> [conn |-> c, frame |-> k, evt |-> cs[i].evt, arg |-> cs[i].arg]]

(* ------------------------------- actions -------------------------------- *)
(* handleSubmit up to the await of startTriage; the submit button is      *)
(* disabled while isTriaging (part_004:373)                               *)
Submit ==
  /\ ~store.isTriaging
  /\ runs < MaxRuns
  /\ store' = setPatientData(setPhase(setIsTriaging(reset(store), TRUE), "init"), Form)
  /\ runs' = runs + 1
  /\ pending' = pending \cup {runs + 1}
  /\ terminated' = FALSE
  /\ last' = Last("submit", 0, "")
  /\ UNCHANGED <<conns, wire, calls, clicks>>

(* startTriage resolved: the rest of the try block, connectSSE included *)
StartResolve(r) ==
  /\ r \in pending
  /\ pending' = pending \ {r}
  /\ store' = addStreamEvent(setSessionId(store, r),
                             Entry("status", "Pipeline started", UNDEF))
  /\ conns' = Append(conns, Conn(r))
  /\ last' = Last("connect", Len(conns) + 1, "")
  /\ UNCHANGED <<runs, wire, calls, terminated, clicks>>

(* startTriage rejected: the catch block of handleSubmit *)
StartReject(r, msg) ==
  /\ r \in pending
  /\ pending' = pending \ {r}
  /\ store' = addStreamEvent(setPhase(setIsTriaging(store, FALSE), "error"),
                 Entry("error", IF Falsy(msg) THEN "Failed to start triage" ELSE msg, UNDEF))
  /\ terminated' = TRUE
  /\ last' = Last("reject", 0, "")
  /\ UNCHANGED <<conns, runs, wire, calls, clicks>>

(* the server sends frame f on connection c and the EventSource dispatches *)
(* it; the onerror of line 42 closes the source after an error event      *)
Receive(c, f) ==
  /\ c \in DOMAIN conns
  /\ conns[c].open
  /\ LET r == Dispatch(f.evt, store, Str(f.data)) IN
       /\ store' = r.st
       /\ calls' = calls \o Mark(c, Len(wire) + 1, r.calls)
  /\ wire' = Append(wire, [conn |-> c, evt |-> f.evt, data |-> f.data])
  /\ conns' = [conns EXCEPT ![c].open = (f.evt # "error"),
                            ![c].term = @ \/ Terminal(f.evt),
                            ![c].frames = @ + 1]
  /\ terminated' = (terminated \/ Terminal(f.evt))
  /\ last' = Last("frame", c, f.evt)
  /\ UNCHANGED <<pending, runs, clicks>>

Deliver(c, f) ==
  /\ Len(wire) + clicks < MaxFrames
  /\ Receive(c, f)

(* an error path that leaves the source open *)
NetError_noClose(c) ==
  /\ c \in DOMAIN conns
  /\ conns[c].open
  /\ LET r == Dispatch("error", store, Undefined) IN
       /\ store' = r.st
       /\ calls' = calls \o Mark(c, 0, r.calls)
  /\ terminated' = TRUE
  /\ last' = Last("neterror", c, "error")
  /\ UNCHANGED <<conns, pending, runs, wire, clicks>>

(* the connection fails or is ended by the server: the EventSource fires  *)
(* an error event without data; the onerror of line 42 closes the source  *)
NetError(c) ==
  /\ c \in DOMAIN conns
  /\ conns[c].open
  /\ LET r == Dispatch("error", store, Undefined) IN
       /\ store' = r.st
       /\ calls' = calls \o Mark(c, 0, r.calls)
  /\ conns' = [conns EXCEPT ![c].open = FALSE]
  /\ terminated' = TRUE
  /\ last' = Last("neterror", c, "error")
  /\ UNCHANGED <<pending, runs, wire, clicks>>

(* QueuePage.handleRowClick on a row of the patient list: the truthy      *)
(* parts of the row are written into the same store                       *)
Row(v, c, p) == [verdict |-> v, classification |-> c, patient_data |-> p]

QueueRows ==
  { Row(Obj(UNDEF, UNDEF, "row.verdict"), Obj(UNDEF, UNDEF, "row.classification"),
        Obj(UNDEF, UNDEF, "row.patient_data")),
    Row(Null, Null, Obj(UNDEF, UNDEF, "row.patient_data")) }

Truthy(v) == ~Nullish(v)

handleRowClick(raw) ==
  /\ clicks < MaxClicks
  /\ Len(wire) + clicks < MaxFrames
  /\ clicks' = clicks + 1
  /\ LET s1 == IF Truthy(raw.verdict) THEN setVerdict(store, raw.verdict) ELSE store
         s2 == IF Truthy(raw.classification)
               THEN setClassification(s1, raw.classification) ELSE s1
     IN store' = IF Truthy(raw.patient_data)
                 THEN setPatientData(s2, raw.patient_data) ELSE s2
  /\ last' = Last("rowclick", 0, "")
  /\ UNCHANGED <<conns, pending, runs, wire, calls, terminated>>

(* ---------------- LiveTriageStream and TriageProvider ----------------- *)
(* effect runs of one mounted instance; events of one stream *)
MaxEffects == 2
MaxLiveEvents == 3

(* the values event.data takes: an object with the fields the view reads, *)
(* or undefined                                                           *)
LVal(t, p, m, id) == [t |-> t, phase |-> p, message |-> m, patient_id |-> id]
LNull == LVal("null", UNDEF, UNDEF, UNDEF)
LUndefined == LVal("undefined", UNDEF, UNDEF, UNDEF)
LObj(p, m, id) == LVal("object", p, m, id)
Event(ty, d) == [type |-> ty, data |-> d]

PT_1 == "PT-POSTMAN-001"
PT_2 == "PT-002"

LiveEvents ==
  { Event("status", LObj("classification", "Classifying", UNDEF)),
    Event("status", LObj("cmo_synthesis", "Synthesizing", UNDEF)),
    Event("status", LUndefined),
    Event("classification_result", LObj(UNDEF, UNDEF, UNDEF)),
    Event("specialist_opinion", LObj(UNDEF, UNDEF, UNDEF)),
    Event("cmo_verdict", LObj(UNDEF, UNDEF, PT_1)),
    Event("cmo_verdict", LObj(UNDEF, UNDEF, PT_2)),
    Event("cmo_verdict", LObj(UNDEF, UNDEF, UNDEF)),
    Event("complete", LUndefined),
    Event("heartbeat", LUndefined) }

(* the queue TriageProvider starts with: rows with distinct patient ids *)
QueueRow(id) == LObj(UNDEF, "queue row", id)
InitialQueues == { <<>>, <<QueueRow(PT_1)>>, <<QueueRow(PT_2), QueueRow(PT_1)>> }

InitialView ==
  [phase |-> "idle", classification |-> LNull, specialists |-> <<>>,
   verdict |-> LNull, statusMsg |-> "Initializing AI triage..."]
InitialCtx(q) == [triageResult |-> LNull, streamEvents |-> <<>>, patientQueue |-> q]
NoStream == [state |-> "none", source |-> "", calls |-> 0, effects |-> 0,
             delivered |-> 0]
LvLast(op, e) == [op |-> op, evt |-> e, view |-> view, ctx |-> ctx]

LiveIdle ==
  /\ view = InitialView
  /\ started = FALSE
  /\ ctx = InitialCtx(<<>>)
  /\ stream = NoStream
  /\ lvLast = [op |-> "init", evt |-> Event("", LUndefined),
               view |-> InitialView, ctx |-> InitialCtx(<<>>)]

StreamIdle ==
  /\ rsText = <<>> /\ rsPos = 0 /\ decoder = <<>> /\ buffer = <<>> /\ rsEvents = <<>>
  /\ rsChunks = 0 /\ rsDone = FALSE

StoreIdle ==
  /\ store = InitialStore
  /\ conns = <<>>
  /\ pending = {}
  /\ runs = 0
  /\ wire = <<>>
  /\ calls = <<>>
  /\ terminated = FALSE
  /\ clicks = 0
  /\ last = [op |-> "init", conn |-> 0, evt |-> "", pre |-> InitialStore,
             preTerm |-> FALSE, connTerm |-> FALSE]

Init ==
  /\ StoreIdle
  /\ StreamIdle
  /\ LiveIdle

Next ==
  \/ Submit /\ UNCHANGED <<streamVars, liveVars>>
  \/ \E r \in 1..MaxRuns : StartResolve(r) /\ UNCHANGED <<streamVars, liveVars>>
  \/ \E r \in 1..MaxRuns, m \in StartErrors : StartReject(r, m) /\ UNCHANGED <<streamVars, liveVars>>
  \/ \E c \in 1..MaxRuns, f \in Frames : Deliver(c, f) /\ UNCHANGED <<streamVars, liveVars>>
  \/ \E c \in 1..MaxRuns : NetError(c) /\ UNCHANGED <<streamVars, liveVars>>
  \/ \E raw \in QueueRows : handleRowClick(raw) /\ UNCHANGED <<streamVars, liveVars>>

Spec == Init /\ [][Next]_vars

(* Scenario A of the specification on one run: the frames of the stream  *)
(* in their order, the three opinions drawn from OpinionTexts; the server *)
(* may end the connection at any point                                    *)
OpinionTexts == {T_op, T_op2, T_op3}

ScenarioA(k) ==
  CASE k = 1 -> {Frame("status", T_init)}
    [] k = 2 -> {Frame("status", T_class)}
    [] k = 3 -> {Frame("classification_result", T_risk)}
    [] k \in 4..6 -> {Frame("specialist_opinion", t) : t \in OpinionTexts}
    [] k = 7 -> {Frame("cmo_verdict", T_verdict98)}
    [] k = 8 -> {Frame("complete", T_empty)}
    [] OTHER -> {}

NextA ==
  \/ runs = 0 /\ Submit /\ UNCHANGED <<streamVars, liveVars>>
  \/ StartResolve(1) /\ UNCHANGED <<streamVars, liveVars>>
  \/ \E f \in ScenarioA(Len(wire) + 1) : Receive(1, f) /\ UNCHANGED <<streamVars, liveVars>>
  \/ NetError(1) /\ UNCHANGED <<streamVars, liveVars>>

SpecA == Init /\ [][NextA]_vars

(* ----------------------------- runRealStream ---------------------------- *)
(* The response body is a sequence of bytes.  An ASCII byte is written as *)
(* its character; C3 A9 are the two bytes of the character e-acute.       *)
B_C3 == "<C3>"
B_A9 == "<A9>"
EACUTE == "<e-acute>"
REPLACEMENT == "<U+FFFD>"
NL == "\n"
CR == "\r"

(* decoder.decode(value, {stream: true}): pend holds the bytes of an      *)
(* incomplete character kept from the chunk before                        *)
RECURSIVE decode(_, _)
decode(pend, bytes) ==
  IF bytes = <<>> THEN [chars |-> <<>>, pend |-> pend]
  ELSE LET b == Head(bytes) IN
       IF pend = <<B_C3>>
       THEN IF b = B_A9
            THEN LET r == decode(<<>>, Tail(bytes)) IN
                 [chars |-> <<EACUTE>> \o r.chars, pend |-> r.pend]
            ELSE LET r == decode(<<>>, bytes) IN
                 [chars |-> <<REPLACEMENT>> \o r.chars, pend |-> r.pend]
       ELSE IF b = B_C3 THEN decode(<<B_C3>>, Tail(bytes))
       ELSE LET r == decode(<<>>, Tail(bytes)) IN
            [chars |-> <<IF b = B_A9 THEN REPLACEMENT ELSE b>> \o r.chars,
             pend |-> r.pend]

(* String.prototype.split('\n'): the pieces between the separators *)
RECURSIVE split(_)
split(text) ==
  IF \A i \in 1..Len(text) : text[i] # NL THEN <<text>>
  ELSE LET k == CHOOSE i \in 1..Len(text) :
                   text[i] = NL /\ \A j \in 1..(i - 1) : text[j] # NL
       IN <<SubSeq(text, 1, k - 1)>> \o split(SubSeq(text, k + 1, Len(text)))

DataPrefix == <<"d", "a", "t", "a", ":", " ">>

startsWith(line, pre) ==
  Len(line) >= Len(pre) /\ SubSeq(line, 1, Len(pre)) = pre

slice(line, n) == SubSeq(line, n + 1, Len(line))

(* JSON.parse on characters: white space around the value is allowed *)
JSONSpace == {" ", CR, "\t"}
RECURSIVE trim(_)
trim(t) ==
  IF t = <<>> THEN t
  ELSE IF Head(t) \in JSONSpace THEN trim(Tail(t))
  ELSE IF t[Len(t)] \in JSONSpace THEN trim(SubSeq(t, 1, Len(t) - 1))
  ELSE t

JSONNull == <<"n", "u", "l", "l">>
JSONValues == { <<"1">>, <<"2">>, <<"\"", EACUTE, "\"">>, JSONNull }

JSONParseChars(t) ==
  IF trim(t) \in JSONValues THEN [ok |-> TRUE, v |-> trim(t)]
  ELSE [ok |-> FALSE, v |-> <<>>]

(* onEvent is LiveTriageStream.handleEvent: after addStreamEvent(event)   *)
(* it reads event.type, which throws a TypeError when event is null       *)
onEventThrows(event) == event = JSONNull

(* a line loop whose onEvent call is outside the try: the exception of    *)
(* the handler leaves the loop                                            *)
RECURSIVE lineLoop_noCatch(_)
lineLoop_noCatch(lines) ==
  IF lines = <<>> THEN <<>>
  ELSE LET line == Head(lines)
           p == JSONParseChars(slice(line, 6)) IN
       IF startsWith(line, DataPrefix) /\ p.ok
       THEN IF onEventThrows(p.v) THEN <<p.v>>
            ELSE <<p.v>> \o lineLoop_noCatch(Tail(lines))
       ELSE lineLoop_noCatch(Tail(lines))

(* the for loop of lines 63-72: the onEvent calls made for the lines; the *)
(* catch of line 68 swallows the SyntaxError of JSON.parse and whatever   *)
(* onEvent throws, and the loop goes on with the next line                *)
RECURSIVE lineLoop(_)
lineLoop(lines) ==
  IF lines = <<>> THEN <<>>
  ELSE LET line == Head(lines) IN
       (IF startsWith(line, DataPrefix) /\ JSONParseChars(slice(line, 6)).ok
        THEN <<JSONParseChars(slice(line, 6)).v>>
        ELSE <<>>) \o lineLoop(Tail(lines))

(* a chunk loop that scans the new chunk without the carried-over buffer *)
processChunk_noCarry(buf, chars) ==
  LET lines == split(chars) IN
  [buffer |-> lines[Len(lines)],
   events |-> lineLoop(SubSeq(lines, 1, Len(lines) - 1))]

(* a chunk loop that keeps the whole text in the buffer (no lines.pop()) *)
processChunk_noPop(buf, chars) ==
  LET lines == split(buf \o chars) IN
  [buffer |-> buf \o chars,
   events |-> lineLoop(SubSeq(lines, 1, Len(lines) - 1))]

(* lines 59-72 for one chunk of decoded characters *)
processChunk(buf, chars) ==
  LET lines == split(buf \o chars) IN
  [buffer |-> lines[Len(lines)],
   events |-> lineLoop(SubSeq(lines, 1, Len(lines) - 1))]

(* the bodies the server can send: frames of one data line and a blank line *)
FrameBodies ==
  { DataPrefix \o <<"1", NL, NL>>,
    DataPrefix \o <<"2", CR, NL, CR, NL>>,
    DataPrefix \o <<"\"", B_C3, B_A9, "\"", NL, NL>>,
    DataPrefix \o <<"[", NL, NL>>,
    DataPrefix \o JSONNull \o <<NL, NL>>,
    <<":", NL, NL>> }

RECURSIVE Bodies(_)
Bodies(n) ==
  IF n = 0 THEN {<<>>}
  ELSE Bodies(n - 1) \cup { b \o f : b \in Bodies(n - 1), f \in FrameBodies }

Min(a, b) == IF a < b THEN a ELSE b

(* one reader.read() that yields n bytes, and the processing of the chunk *)
ReadChunk(n) ==
  /\ ~rsDone
  /\ n \in 1..(Len(rsText) - rsPos)
  /\ LET d == decode(decoder, SubSeq(rsText, rsPos + 1, rsPos + n))
         r == processChunk(buffer, d.chars) IN
       /\ decoder' = d.pend
       /\ buffer' = r.buffer
       /\ rsEvents' = rsEvents \o r.events
  /\ rsPos' = rsPos + n
  /\ rsChunks' = Min(rsChunks + 1, 3)
  /\ UNCHANGED <<rsText, rsDone>>

(* reader.read() yields done: the loop is left *)
ReadDone ==
  /\ ~rsDone
  /\ rsPos = Len(rsText)
  /\ rsDone' = TRUE
  /\ UNCHANGED <<rsText, rsPos, decoder, buffer, rsEvents, rsChunks>>

InitStream ==
  /\ StoreIdle
  /\ LiveIdle
  /\ rsText \in Bodies(MaxStreamFrames)
  /\ rsPos = 0
  /\ decoder = <<>>
  /\ buffer = <<>>
  /\ rsEvents = <<>>
  /\ rsChunks = 0
  /\ rsDone = FALSE

NextStream ==
  \/ \E n \in 1..(Len(rsText) - rsPos) : ReadChunk(n) /\ UNCHANGED <<storeVars, liveVars>>
  \/ ReadDone /\ UNCHANGED <<storeVars, liveVars>>

SpecStream == InitStream /\ [][NextStream]_vars

(* the application with both consumers: a behaviour is either a session   *)
(* of PatientForm on connectSSE or one read of runRealStream               *)
NextAll ==
  \/ rsText = <<>> /\ ~rsDone /\ Next
  \/ runs = 0 /\ clicks = 0 /\ NextStream

SpecAll == InitStream /\ [][NextAll]_vars

(* --------------- handlers of LiveTriageStream, its stream --------------- *)
(* TriageProvider.addStreamEvent *)
ctxAddStreamEvent(cx, event) ==
  [cx EXCEPT !.streamEvents = Append(@, event)]

(* a setResult that prepends whatever the queue holds *)
setResult_alwaysPrepend(cx, result) ==
  [cx EXCEPT !.triageResult = result, !.patientQueue = <<result>> \o @]

(* TriageProvider.setResult *)
setResult(cx, result) ==
  LET prev == cx.patientQueue
      exists == \E i \in DOMAIN prev : prev[i].patient_id = result.patient_id
  IN [cx EXCEPT !.triageResult = result,
                !.patientQueue = IF exists THEN prev ELSE <<result>> \o prev]

(* handleEvent of the effect: threw is the TypeError of event.data.phase  *)
(* on an event without data, raised after addStreamEvent                  *)
handleEvent(event, v, cx) ==
  LET c1 == ctxAddStreamEvent(cx, event) IN
  CASE event.type = "status" ->
         IF Nullish(event.data)
           THEN [view |-> v, ctx |-> c1, threw |-> TRUE]
           ELSE [view |-> [v EXCEPT !.phase = event.data.phase,
                                    !.statusMsg = event.data.message],
                 ctx |-> c1, threw |-> FALSE]
    [] event.type = "classification_result" ->
         [view |-> [v EXCEPT !.classification = event.data,
                             !.phase = "classification_done"],
          ctx |-> c1, threw |-> FALSE]
    [] event.type = "specialist_opinion" ->
         [view |-> [v EXCEPT !.specialists = Append(@, event.data)],
          ctx |-> c1, threw |-> FALSE]
    [] event.type = "cmo_verdict" ->
         [view |-> [v EXCEPT !.verdict = event.data, !.phase = "complete"],
          ctx |-> setResult(c1, event.data), threw |-> FALSE]
    [] event.type = "complete" ->
         [view |-> [v EXCEPT !.phase = "complete"], ctx |-> c1, threw |-> FALSE]
    [] OTHER -> [view |-> v, ctx |-> c1, threw |-> FALSE]

(* an effect without the started ref: every run calls submitTriage *)
MountEffect_noGuard ==
  /\ stream.effects < MaxEffects
  /\ started' = TRUE
  /\ \E src \in {"mock", "real"} :
       stream' = [stream EXCEPT !.effects = @ + 1, !.calls = @ + 1,
                                !.state = "open", !.source = src]
  /\ lvLast' = LvLast("effect", Event("", LUndefined))
  /\ UNCHANGED <<view, ctx>>

(* the mount effect; USE_MOCK is a constant of the build, and the effect  *)
(* is modelled for both builds of submitTriage                            *)
MountEffect ==
  /\ stream.effects < MaxEffects
  /\ IF started
       THEN /\ stream' = [stream EXCEPT !.effects = @ + 1]
            /\ UNCHANGED started
       ELSE /\ started' = TRUE
            /\ \E src \in {"mock", "real"} :
                 stream' = [stream EXCEPT !.effects = @ + 1, !.calls = @ + 1,
                                          !.state = "open", !.source = src]
  /\ lvLast' = LvLast("effect", Event("", LUndefined))
  /\ UNCHANGED <<view, ctx>>

(* onEvent(event): runMockStream lets a throw of the handler reject the   *)
(* stream; runRealStream's catch swallows it                              *)
LiveDeliver(e) ==
  /\ stream.state = "open"
  /\ stream.delivered < MaxLiveEvents
  /\ LET h == handleEvent(e, view, ctx) IN
       /\ view' = h.view
       /\ ctx' = h.ctx
       /\ stream' = [stream EXCEPT
                       !.delivered = @ + 1,
                       !.state = IF h.threw /\ stream.source = "mock"
                                   THEN "failed" ELSE "open"]
  /\ lvLast' = LvLast("event", e)
  /\ UNCHANGED started

(* the loop over mockSSEEvents ends, or reader.read() reports done *)
StreamEnd ==
  /\ stream.state = "open"
  /\ stream' = [stream EXCEPT !.state = "done"]
  /\ lvLast' = LvLast("end", Event("", LUndefined))
  /\ UNCHANGED <<view, started, ctx>>

(* fetch rejects, the response is not ok, or a read rejects: the promise  *)
(* of submitTriage rejects and nobody awaits it                           *)
StreamFail ==
  /\ stream.state = "open"
  /\ stream.source = "real"
  /\ stream' = [stream EXCEPT !.state = "failed"]
  /\ lvLast' = LvLast("fail", Event("", LUndefined))
  /\ UNCHANGED <<view, started, ctx>>

InitLive ==
  /\ StoreIdle
  /\ StreamIdle
  /\ view = InitialView
  /\ started = FALSE
  /\ \E q \in InitialQueues :
       /\ ctx = InitialCtx(q)
       /\ lvLast = [op |-> "init", evt |-> Event("", LUndefined),
                    view |-> InitialView, ctx |-> InitialCtx(q)]
  /\ stream = NoStream

NextLive ==
  \/ MountEffect /\ UNCHANGED <<storeVars, streamVars>>
  \/ \E e \in LiveEvents : LiveDeliver(e) /\ UNCHANGED <<storeVars, streamVars>>
  \/ StreamEnd /\ UNCHANGED <<storeVars, streamVars>>
  \/ StreamFail /\ UNCHANGED <<storeVars, streamVars>>

SpecLive == InitLive /\ [][NextLive]_vars

(* the browser runs every pending task: an effect, an event, the end *)
SpecLiveFair == SpecLive /\ WF_vars(NextLive)

(* ======================= properties of the claims ======================= *)
PhaseOrder == <<"idle", "init", "classification", "specialist_council",
                "cmo_synthesis", "complete">>
InOrder(p) == \E i \in 1..Len(PhaseOrder) : PhaseOrder[i] = p
Ord(p) == CHOOSE i \in 1..Len(PhaseOrder) : PhaseOrder[i] = p

ByFrame == last.op = "frame"
ByStream == last.op \in {"frame", "neterror"}
OpenConns == {c \in DOMAIN conns : conns[c].open}
CallsOf(k) == {i \in DOMAIN calls : calls[i].frame = k}

(* C1: within a run, a frame dispatched to the PatientForm handlers never  *)
(* moves the phase to an earlier position of the order idle < init <       *)
(* classification < specialist_council < cmo_synthesis < complete; only a  *)
(* move into error is exempt.                                              *)
C1_PhaseNeverRegresses ==
  (ByFrame /\ InOrder(last.pre.phase) /\ InOrder(store.phase))
    => Ord(store.phase) >= Ord(last.pre.phase)

(* C2: once a complete or error frame has been handled in the run, no      *)
(* later frame changes classification, specialists, verdict or phase.      *)
C2_TerminalImmutability ==
  (ByFrame /\ last.preTerm)
    => /\ store.classification = last.pre.classification
       /\ store.specialists = last.pre.specialists
       /\ store.verdict = last.pre.verdict
       /\ store.phase = last.pre.phase

(* C3: after the run has terminated, a second complete or error frame, the *)
(* synthetic error of a failed or ended connection included, leaves the    *)
(* phase as it was: complete never becomes error, error never complete.    *)
C3_LateTerminalIsNoOp ==
  (ByStream /\ Terminal(last.evt) /\ last.preTerm /\ last.pre.phase \in {"complete", "error"})
    => store.phase = last.pre.phase

(* C4: for every frame of a recognized event type the registered handler   *)
(* is invoked exactly once, also when the handler throws.                  *)
C4_HandlerOncePerFrame ==
  \A k \in DOMAIN wire :
     wire[k].evt \in events => Cardinality(CallsOf(k)) = 1

(* C5: at every moment at most one connection opened by connectSSE is open *)
C5_AtMostOneOpenConnection == Cardinality(OpenConns) <= 1

(* C6: a frame or failure on the connection of an earlier run does not     *)
(* change the store once handleSubmit has reset it and started a new run.  *)
C6_RunsIsolated ==
  (ByStream /\ conns[last.conn].sid # runs) => store = last.pre

(* C7: on one stream the handler invocations are exactly the recognized    *)
(* frames in wire order, none repeated, and for each of them the log       *)
(* grows by exactly one entry.                                             *)
RecognizedFrames == {k \in DOMAIN wire : wire[k].evt \in events}
C7_OrderPreserved ==
  /\ \A i \in DOMAIN calls : calls[i].frame \in RecognizedFrames
  /\ \A i, j \in DOMAIN calls : i < j => calls[i].frame < calls[j].frame
  /\ \A k \in RecognizedFrames : CallsOf(k) # {}
  /\ (ByFrame /\ last.evt \in events)
       => Len(store.streamEvents) = Len(last.pre.streamEvents) + 1

(* C8: in runRealStream, however the bytes of the body are cut into        *)
(* chunks, after every chunk the onEvent calls made so far and the buffer  *)
(* are those of reading the same bytes as one chunk: a data line is        *)
(* emitted exactly once, with the same payload, and not before its line    *)
(* feed has arrived; a partial line waits in the buffer.                   *)
OneChunk(bytes) == processChunk(<<>>, decode(<<>>, bytes).chars)
Received == SubSeq(rsText, 1, rsPos)
LineFeeds(t) == Cardinality({i \in DOMAIN t : t[i] = NL})
DataLines(t) ==
  LET ls == split(decode(<<>>, t).chars) IN
  Cardinality({i \in 1..(Len(ls) - 1) : startsWith(ls[i], DataPrefix)})
C9_MalformedNotDropped ==
  rsDone => Len(rsEvents) = DataLines(rsText)

(* C10: when the connection breaks before a complete or error frame was    *)
(* seen on it, the error handler receives the message SSE connection lost, *)
(* the phase is error, isTriaging is false, the connection is closed and   *)
(* the log has grown by exactly one entry, the error entry.                *)
C10_TransportFailure ==
  (last.op = "neterror" /\ ~last.connTerm)
    => /\ store.phase = "error"
       /\ ~store.isTriaging
       /\ terminated
       /\ ~conns[last.conn].open
       /\ store.streamEvents = Append(last.pre.streamEvents, Entry("error", LOST, UNDEF))
       /\ calls # <<>> /\ calls[Len(calls)].arg.message = LOST

(* status{phase:init}, then the connection drops *)
C10_Witness ==
  /\ last.op = "neterror" /\ ~last.connTerm
  /\ wire = << [conn |-> 1, evt |-> "status", data |-> T_init] >>
  /\ store.phase = "error"
  /\ Len(store.streamEvents) = 3

(* ---------------------------- claims C11..C20 --------------------------- *)
(* what a listener hands to its handler for a frame with data text t      *)
Payload(t) == LET p == JSONParse(Str(t)) IN IF p.ok THEN p.v ELSE Str(t)

IsPrefix(a, b) == Len(a) <= Len(b) /\ SubSeq(b, 1, Len(a)) = a

(* the onEvent calls a body must give: the payloads of its data lines     *)
(* with a JSON payload, in the order of the lines                         *)
IsParsableData(line) ==
  startsWith(line, DataPrefix) /\ JSONParseChars(slice(line, 6)).ok
ExpectedEvents(bytes) ==
  LET ls == SelectSeq(split(decode(<<>>, bytes).chars), IsParsableData) IN
  [i \in DOMAIN ls |-> JSONParseChars(slice(ls[i], 6)).v]

(* C11: a handler that throws on frame k does not stop the dispatch: in   *)
(* runRealStream every data line with a JSON payload reaches onEvent, in  *)
(* order, also after a line whose onEvent threw; with connectSSE every    *)
(* recognized frame reaches its handler, in wire order.                   *)
C11_HandlerFaultConfined ==
  /\ rsDone => rsEvents = ExpectedEvents(rsText)
  /\ \A k \in RecognizedFrames : CallsOf(k) # {}
  /\ \A i, j \in DOMAIN calls :
        (i < j /\ calls[i].frame > 0 /\ calls[j].frame > 0)
          => calls[i].frame <= calls[j].frame

(* onEvent threw on the first frame and the second was still dispatched *)
C11_Witness ==
  /\ rsDone
  /\ rsText = DataPrefix \o JSONNull \o <<NL, NL>> \o DataPrefix \o <<"1", NL, NL>>
  /\ rsEvents = <<JSONNull, <<"1">> >>
  /\ onEventThrows(rsEvents[1])

(* C12: before termination the specialists list has one element for each  *)
(* specialist_opinion frame, the i-th being the payload of the i-th frame. *)
OpinionSeq == SelectSeq(wire, LAMBDA w : w.evt = "specialist_opinion")
C12_OpinionAccumulation ==
  (runs = 1 /\ ~terminated /\ clicks = 0)
    => store.specialists = [i \in DOMAIN OpinionSeq |-> Payload(OpinionSeq[i].data)]

(* C13: once the error path of connectSSE has closed a connection, no      *)
(* handler is invoked again for it, and the closing changes none of        *)
(* classification, specialists and verdict.                                *)
LostCall(i) == calls[i].arg.message = LOST
C14_OnlyFramesWriteResults ==
  (/\ last.op \notin {"init", "submit"}
   /\ last.pre.isTriaging
   /\ \/ store.classification # last.pre.classification
      \/ store.verdict # last.pre.verdict)
    => /\ last.op = "frame"
       /\ last.evt \in {"classification_result", "cmo_verdict"}
       /\ conns[last.conn].sid = runs

(* C15: a frame of an event type outside the seven recognized ones invokes *)
(* no handler and leaves the store as it was; the recognized frames, also  *)
(* those after it, are dispatched.                                         *)
C15_UnknownTypeIgnored ==
  /\ (ByFrame /\ last.evt \notin events)
       => (store = last.pre /\ CallsOf(Len(wire)) = {})
  /\ \A k \in DOMAIN wire : wire[k].evt \notin events => CallsOf(k) = {}
  /\ \A k \in DOMAIN wire :
        (wire[k].evt \in events /\ k > 1 /\ wire[k - 1].evt \notin events)
          => CallsOf(k) # {}

(* an unknown frame, then a status frame on the same connection *)
C15_Witness ==
  /\ Len(wire) >= 2
  /\ wire[1].evt = "heartbeat" /\ wire[2].evt = "status"
  /\ wire[1].conn = wire[2].conn
  /\ CallsOf(2) # {}
  /\ store.phase = "classification"

(* C16: within a run streamEvents and specialists are append-only: every   *)
(* operation but the reset of a new submit leaves the earlier value as a   *)
(* prefix.                                                                 *)
C16_AppendOnly ==
  (last.op \notin {"init", "submit"})
    => /\ IsPrefix(last.pre.streamEvents, store.streamEvents)
       /\ IsPrefix(last.pre.specialists, store.specialists)

(* a second opinion was appended to a non-empty list *)
C16_Witness ==
  /\ ByFrame /\ last.evt = "specialist_opinion"
  /\ Len(last.pre.specialists) >= 1
  /\ Len(store.specialists) > Len(last.pre.specialists)
  /\ Len(store.streamEvents) > Len(last.pre.streamEvents)

(* C17: before termination, a classification_result frame leaves its       *)
(* payload in classification and a cmo_verdict frame its payload in        *)
(* verdict (last write wins).                                              *)
C17_LastWriteWins ==
  /\ (ByFrame /\ ~last.preTerm /\ last.evt = "classification_result")
       => store.classification = Payload(wire[Len(wire)].data)
  /\ (ByFrame /\ ~last.preTerm /\ last.evt = "cmo_verdict")
       => store.verdict = Payload(wire[Len(wire)].data)

C19_ScenarioAFinalState ==
  Len(wire) = 8
    => /\ store.phase = "complete"
       /\ ~store.isTriaging
       /\ terminated
       /\ store.classification = Payload(T_risk)
       /\ Len(store.specialists) = 3
       /\ store.verdict = Payload(T_verdict98)

(* C20: after a classification_result frame in a run that has not          *)
(* terminated, the phase is classification or later in the order.          *)
C20_ClassificationImpliesPhase ==
  (ByFrame /\ ~last.preTerm /\ last.evt = "classification_result"
     /\ last.pre.phase \in {"idle", "init"})
    => (InOrder(store.phase) /\ Ord(store.phase) >= Ord("classification"))

(* ---------------------------- claims C21..C30 --------------------------- *)
PhaseValues == {"idle", "init", "classification", "specialist_council",
                "cmo_synthesis", "complete", "error"}

(* C21: in every reachable state the phase of the store is one of the      *)
(* seven defined values, whatever the payloads of the status frames.       *)
C21_PhaseInVocabulary == store.phase \in PhaseValues

(* C22: a status frame whose label is earlier than the current phase is    *)
(* not applied, and it is logged; a frame after termination is logged      *)
(* too; in both cases the log gains exactly one entry.                     *)
LastLabel == Payload(wire[Len(wire)].data).phase
C22_RegressionLoggedNotApplied ==
  /\ (ByFrame /\ last.evt = "status" /\ InOrder(last.pre.phase)
        /\ InOrder(LastLabel) /\ Ord(LastLabel) < Ord(last.pre.phase))
       => /\ store.phase = last.pre.phase
          /\ Len(store.streamEvents) = Len(last.pre.streamEvents) + 1
  /\ (ByFrame /\ last.preTerm /\ last.evt \in events)
       => Len(store.streamEvents) = Len(last.pre.streamEvents) + 1

(* C23: each handler writes its own field and the log only: an             *)
(* other_specialty_scores frame sets otherSpecialty and leaves             *)
(* specialists, classification, verdict and phase; a specialist_opinion    *)
(* frame changes only specialists; a classification_result frame leaves    *)
(* specialists and verdict; a cmo_verdict frame leaves specialists and     *)
(* classification.                                                         *)
Same(fields) == \A f \in fields : store[f] = last.pre[f]
C23_HandlersWriteOwnField ==
  /\ (ByFrame /\ last.evt = "other_specialty_scores")
       => /\ Same({"specialists", "classification", "verdict", "phase",
                   "isTriaging", "sessionId", "patientData"})
          /\ store.otherSpecialty \in {Payload(wire[Len(wire)].data),
                                       Str(wire[Len(wire)].data)}
  /\ (ByFrame /\ last.evt = "specialist_opinion")
       => /\ Same({"classification", "verdict", "otherSpecialty", "phase",
                   "isTriaging", "sessionId", "patientData"})
          /\ store.specialists # last.pre.specialists
  /\ (ByFrame /\ last.evt = "classification_result")
       => Same({"specialists", "verdict", "otherSpecialty", "phase"})
  /\ (ByFrame /\ last.evt = "cmo_verdict")
       => Same({"specialists", "classification", "otherSpecialty", "phase"})

(* other_specialty_scores arrived in a session that had results already *)
C23_Witness ==
  /\ ByFrame /\ last.evt = "other_specialty_scores"
  /\ last.pre.specialists # <<>>
  /\ last.pre.classification # Null
  /\ store.otherSpecialty = Payload(T_dept)
  /\ last.pre.otherSpecialty = Null

(* C24: in runRealStream, after each chunk the buffer is the part of the   *)
(* received text after its last line feed: it holds no line feed, the      *)
(* lines before it have each been consumed once, and the consumed lines    *)
(* followed by the buffer are the text received so far.                    *)
ReceivedChars == decode(<<>>, Received).chars
ConsumedLen == Len(ReceivedChars) - Len(buffer)
ConsumedEvents ==
  LET ls == SelectSeq(split(SubSeq(ReceivedChars, 1, ConsumedLen)),
                      IsParsableData) IN
  [i \in DOMAIN ls |-> JSONParseChars(slice(ls[i], 6)).v]
C24_BufferHoldsOnePartialLine ==
  /\ \A i \in DOMAIN buffer : buffer[i] # NL
  /\ ConsumedLen >= 0
  /\ SubSeq(ReceivedChars, ConsumedLen + 1, Len(ReceivedChars)) = buffer
  /\ ConsumedLen > 0 => ReceivedChars[ConsumedLen] = NL
  /\ rsEvents = ConsumedEvents

(* a partial line waits in the buffer after an earlier line was consumed *)
C24_Witness ==
  /\ buffer # <<>>
  /\ rsEvents # <<>>
  /\ rsChunks >= 2
  /\ rsPos < Len(rsText)

(* C25: on the PatientForm path, whenever phase is complete or error,      *)
(* isTriaging is false; whenever isTriaging is true the phase is not       *)
(* terminal.                                                               *)
C25_TriagingConsistentWithPhase ==
  store.phase \in {"complete", "error"} => ~store.isTriaging

(* C26: when the connection fails, the error handler is invoked exactly    *)
(* once for the failure, with the message SSE connection lost, and the     *)
(* connection is closed.                                                   *)
FailureCalls(c) == {i \in DOMAIN calls : calls[i].conn = c /\ calls[i].frame = 0}
C26_ErrorHandlerOncePerFailure ==
  last.op = "neterror"
    => /\ Cardinality(FailureCalls(last.conn)) = 1
       /\ \A i \in FailureCalls(last.conn) : calls[i].arg.message = LOST
       /\ ~conns[last.conn].open

(* C28: when startTriage rejects, no connection is opened for the run and  *)
(* the store is left with phase error, isTriaging false, sessionId null    *)
(* and exactly one log entry, of type error; the failure path sets no      *)
(* classification, specialist or verdict.                                  *)
C28_StartFailure ==
  last.op = "reject"
    => /\ store.phase = "error"
       /\ ~store.isTriaging
       /\ store.sessionId = 0
       /\ Len(store.streamEvents) = 1
       /\ store.streamEvents[1].type = "error"
       /\ Same({"classification", "specialists", "verdict"})
       /\ Len(conns) + Cardinality(pending) < runs

(* C27: in LiveTriageStream, once the stream is over (ended or failed)     *)
(* the phase of the view eventually is complete or error.                  *)
StreamOver == stream.state \in {"done", "failed"}
C27_StreamOverReachesTerminal ==
  StreamOver ~> (view.phase \in {"complete", "error"})

(* C29: one mounted LiveTriageStream calls submitTriage at most once, and  *)
(* exactly once when its effect has run, however often the effect runs;    *)
(* each delivered event is applied once: one log entry per event and one   *)
(* opinion per specialist_opinion event.                                   *)
OpinionEvents ==
  SelectSeq(ctx.streamEvents, LAMBDA e : e.type = "specialist_opinion")
C29_OneStreamPerInstance ==
  /\ stream.calls <= 1
  /\ stream.effects >= 1 => stream.calls = 1
  /\ started <=> stream.calls = 1
  /\ Len(ctx.streamEvents) = stream.delivered
  /\ Len(view.specialists) = Len(OpinionEvents)

(* the effect ran twice and the only stream delivered events *)
C29_Witness ==
  /\ stream.effects = 2
  /\ stream.calls = 1
  /\ stream.delivered >= 2
  /\ view.specialists # <<>>

(* C30: setResult(result) sets triageResult to result; it prepends result  *)
(* to patientQueue when no entry has result's patient_id and leaves the    *)
(* queue as it was otherwise, so it never adds a second entry for an id.   *)
WithId(q, id) == {i \in DOMAIN q : q[i].patient_id = id}
C30_SetResultIdempotentOnQueue ==
  (lvLast.op = "event" /\ lvLast.evt.type = "cmo_verdict")
    => LET result == lvLast.evt.data
           prev == lvLast.ctx.patientQueue
       IN /\ ctx.triageResult = result
          /\ IF WithId(prev, result.patient_id) = {}
               THEN ctx.patientQueue = <<result>> \o prev
               ELSE ctx.patientQueue = prev
          /\ Cardinality(WithId(ctx.patientQueue, result.patient_id)) = 1

(* setResult was repeated with a patient_id the queue already held *)
C30_Witness ==
  /\ lvLast.op = "event" /\ lvLast.evt.type = "cmo_verdict"
  /\ WithId(lvLast.ctx.patientQueue, lvLast.evt.data.patient_id) # {}
  /\ lvLast.ctx.triageResult = lvLast.evt.data
  /\ lvLast.ctx.patientQueue[1] = lvLast.evt.data
  /\ ctx.patientQueue = lvLast.ctx.patientQueue

====
